---------------------------- MODULE Spec2Model ----------------------------
(* pa-permission-diff-analyzer (src/main.py): the metadata lookup, the      *)
(* directory comparison, the two report renderers and the command line      *)
(* entry point, over two small directory trees.                             *)
(*                                                                          *)
(* A relative path is the sequence of its components (<<"d","a">> is d/a);  *)
(* component names hold no "/", so str(f.relative_to(dir)) followed by      *)
(* dir / filename is the join and split of that sequence.                   *)
(* The result list of compare_directories is built by iterating a Python    *)
(* set, whose order is unspecified: it is modelled as a bag (the list up to *)
(* permutation, multiplicities kept).                                       *)
EXTENDS Bags, FiniteSets, Integers, Sequences, TLC

VARIABLES fs1, fs2, args, rich_installed, writable,
          pc, diffs, report, stdout, file_out, exit_code, log, compare_calls

vars == <<fs1, fs2, args, rich_installed, writable,
          pc, diffs, report, stdout, file_out, exit_code, log, compare_calls>>

-----------------------------------------------------------------------------
(* Bounds and the input universe                                            *)

\* uids and gids of the files range over 0..MaxId
MaxId == 1

Ids == 0..MaxId

\* the relative paths a tree may hold: a, d, d/a, d/d, d/d/a
RelPaths == {<<"a">>, <<"d">>, <<"d", "a">>, <<"d", "d">>, <<"d", "d", "a">>}

AllRel == {<< >>} \cup RelPaths

None == [kind |-> "none", perm |-> 0, uid |-> 0, gid |-> 0]

\* a directory, mode 0755, root:root
DirNode == [kind |-> "dir", perm |-> 493, uid |-> 0, gid |-> 0]

\* a regular file, mode 0644, root:root
Baseline == [kind |-> "file", perm |-> 420, uid |-> 0, gid |-> 0]

\* the baseline file with its mode changed to 0755
PermChanged == [Baseline EXCEPT !.perm = 493]

\* the baseline file with owner, group or both changed
OwnerChanged == {[Baseline EXCEPT !.uid = k] : k \in Ids \ {0}}
                  \cup {[Baseline EXCEPT !.gid = k] : k \in Ids \ {0}}
                  \cup {[Baseline EXCEPT !.uid = k, !.gid = k] : k \in Ids \ {0}}

Parent(p) == SubSeq(p, 1, Len(p) - 1)

\* a tree: an entry exists only inside a directory and an entry named "a" is
\* never a directory; the root itself is a directory, a regular file (it then
\* has no entries) or missing
WellFormed(t) ==
    \A p \in RelPaths :
        /\ t[p] # None => t[Parent(p)].kind = "dir"
        /\ p[Len(p)] = "a" => t[p].kind # "dir"

Trees(FileNodes) ==
    {t \in [AllRel -> {None, DirNode} \cup FileNodes] : WellFormed(t)}

\* trees of baseline files; of files whose mode may have changed; of files
\* whose mode, owner or group may have changed
TreesBase == Trees({Baseline})
TreesMode == Trees({Baseline, PermChanged})
TreesAny == Trees({Baseline, PermChanged} \cup OwnerChanged)

Root1 == [root |-> "DIR1", rel |-> << >>]
Root2 == [root |-> "DIR2", rel |-> << >>]

\* the two trees as one filesystem, addressed by [root, rel]
World == [r \in {"DIR1", "DIR2"} |-> IF r = "DIR1" THEN fs1 ELSE fs2]

-----------------------------------------------------------------------------
(* Filesystem primitives used by the program                                *)

Node(w, root, rel) == IF rel \in DOMAIN w[root] THEN w[root][rel] ELSE None

\* os.stat raising NotADirectoryError: a component of the path is a regular file
NotADirectory == [kind |-> "enotdir", perm |-> 0, uid |-> 0, gid |-> 0]

BelowFile(w, path) ==
    \E k \in 0..(Len(path.rel) - 1) :
        Node(w, path.root, SubSeq(path.rel, 1, k)).kind = "file"

\* the stat result; kind "none" is FileNotFoundError
os_stat(w, path) ==
    IF BelowFile(w, path) THEN NotADirectory
    ELSE Node(w, path.root, path.rel)

\* Path.exists, is_dir and is_file answer False when os.stat fails
exists(w, path) == os_stat(w, path).kind \in {"file", "dir"}

\* is_dir taken for exists
is_dir_any(w, path) == os_stat(w, path).kind \in {"file", "dir"}
is_dir(w, path) == os_stat(w, path).kind = "dir"

is_file(w, path) == os_stat(w, path).kind = "file"

IsUnder(d, p) == Len(p) > Len(d) /\ SubSeq(p, 1, Len(d)) = d

\* dir.rglob("*"): every existing entry below dir, at any depth
rglob(w, dir) ==
    {[root |-> dir.root, rel |-> p] :
        p \in {q \in DOMAIN w[dir.root] :
                 IsUnder(dir.rel, q) /\ w[dir.root][q].kind # "none"}}

relative_to(f, dir) == SubSeq(f.rel, Len(dir.rel) + 1, Len(f.rel))

joinpath(dir, filename) == [root |-> dir.root, rel |-> dir.rel \o filename]

-----------------------------------------------------------------------------
(* get_file_permissions                                                     *)

Bit(n, b) == (n \div b) % 2 = 1

rwx(perm, r, w, x) ==
    (IF Bit(perm, r) THEN "r" ELSE "-")
      \o (IF Bit(perm, w) THEN "w" ELSE "-")
      \o (IF Bit(perm, x) THEN "x" ELSE "-")

\* filemode without the file type in its first character
filemode_notype(st) ==
    "-" \o rwx(st.perm, 256, 128, 64) \o rwx(st.perm, 32, 16, 8)
        \o rwx(st.perm, 4, 2, 1)
\* stat.filemode: the type character, then rwx for user, group and other
filemode(st) ==
    (IF st.kind = "dir" THEN "d" ELSE "-")
      \o rwx(st.perm, 256, 128, 64) \o rwx(st.perm, 32, 16, 8)
      \o rwx(st.perm, 4, 2, 1)

\* the account databases: << >> stands for KeyError
getpwuid(uid) == IF uid = 0 THEN <<"root">>
                 ELSE IF uid = 1 THEN <<"daemon">> ELSE << >>

getgrgid(gid) == IF gid = 0 THEN <<"root">> ELSE << >>

\* the empty dict returned for a path that cannot be read
EmptyDict == [k \in {} |-> ""]

\* a record handed to the logging module
LogRec(level, msg, path) ==
    SetToBag({[level |-> level, msg |-> msg, path |-> path]})

Severity == [DEBUG |-> 10, INFO |-> 20, WARNING |-> 30, ERROR |-> 40,
             CRITICAL |-> 50]

\* the records that reach the log when the root logger is set to log_level
Emit(records, log_level) ==
    [r \in {x \in DOMAIN records : Severity[x.level] >= Severity[log_level]}
        |-> records[r]]

get_file_permissions(w, path, ignore_ownership) ==
    LET stat_info == os_stat(w, path)
        mode == filemode(stat_info)
        pw == getpwuid(stat_info.uid)
        gr == getgrgid(stat_info.gid)
        \* owner is rebound before the group lookup can raise KeyError
        owner == IF ~ignore_ownership /\ pw # << >>
                 THEN pw[1] ELSE ToString(stat_info.uid)
        group == IF ~ignore_ownership /\ pw # << >> /\ gr # << >>
                 THEN gr[1] ELSE ToString(stat_info.gid)
    IN  IF stat_info.kind = "none"
        THEN [ret |-> EmptyDict,
              log |-> LogRec("ERROR", "File not found", path)]
        ELSE IF stat_info.kind = "enotdir"
        THEN [ret |-> EmptyDict,
              log |-> LogRec("ERROR", "Error accessing", path)]
        ELSE [ret |-> [mode |-> mode, owner |-> owner, group |-> group],
              log |-> IF ~ignore_ownership /\ (pw = << >> \/ gr = << >>)
                      THEN LogRec("WARNING", "User or group ID not found", path)
                      ELSE EmptyBag]

-----------------------------------------------------------------------------
(* compare_directories                                                      *)

\* the listing without its "if f.is_file()" filter
files_all(w, dir) == {relative_to(f, dir) : f \in rglob(w, dir)}
\* the keys of {str(f.relative_to(dir)): f for f in dir.rglob("*") if f.is_file()}
files(w, dir) ==
    {relative_to(f, dir) : f \in {g \in rglob(w, dir) : is_file(w, g)}}

\* the paths of both listings only; the paths of the first listing only
all_files_common(w, dir1, dir2) == files(w, dir1) \cap files(w, dir2)
all_files_first(w, dir1, dir2) == files(w, dir1)
\* line 186
all_files(w, dir1, dir2) == files(w, dir1) \cup files(w, dir2)

Nothing == [ret |-> EmptyBag, log |-> EmptyBag]

Both(r, s) == [ret |-> r.ret (+) s.ret, log |-> r.log (+) s.log]

RECURSIVE compare_directories(_, _, _, _, _)
compare_directories(w, dir1, dir2, recursive, ignore_ownership) ==
    IF ~is_dir(w, dir1)
    THEN [ret |-> EmptyBag, log |-> LogRec("ERROR", "Directory not found", dir1)]
    ELSE IF ~is_dir(w, dir2)
    THEN [ret |-> EmptyBag, log |-> LogRec("ERROR", "Directory not found", dir2)]
    ELSE
      LET step(filename) ==
            LET path1 == joinpath(dir1, filename)
                path2 == joinpath(dir2, filename)
                perms1 == get_file_permissions(w, path1, ignore_ownership)
                perms2 == get_file_permissions(w, path2, ignore_ownership)
                found == [ret |-> IF perms1.ret # perms2.ret
                                  THEN SetToBag({<<filename, perms1.ret, perms2.ret>>})
                                  ELSE EmptyBag,
                          log |-> perms1.log (+) perms2.log]
            IN  IF recursive /\ is_dir(w, path1) /\ is_dir(w, path2)
                THEN Both(found, compare_directories(w, path1, path2,
                                      recursive, ignore_ownership))
                ELSE found
          RECURSIVE loop(_)
          loop(S) == IF S = {} THEN Nothing
                     ELSE LET filename == CHOOSE x \in S : TRUE
                          IN  Both(step(filename), loop(S \ {filename}))
      IN  loop(all_files(w, dir1, dir2))

-----------------------------------------------------------------------------
(* The report renderers. A rendered string is a document: its fixed lines   *)
(* in order, then one block (or table row) per discrepancy.                 *)

Doc(lines, blocks) == [lines |-> lines, blocks |-> blocks]

\* the empty string
EmptyDoc == Doc(<< >>, EmptyBag)

Header(dir1, dir2) ==
    <<"Permission Difference Report", "Comparing: " \o dir1 \o " vs " \o dir2>>

generate_text_report(d, dir1, dir2) ==
    IF d = EmptyBag
    THEN Doc(Header(dir1, dir2) \o <<"No permission differences found.">>, EmptyBag)
    ELSE Doc(Header(dir1, dir2), d)

\* ret is the returned string, out is what the call prints
generate_rich_report(d, dir1, dir2, installed) ==
    IF ~installed
    THEN [ret |-> generate_text_report(d, dir1, dir2),
          out |-> <<Doc(<<"Rich library not installed.  Falling back to text format.">>,
                        EmptyBag)>>]
    ELSE IF d = EmptyBag
    THEN [ret |-> EmptyDoc,
          out |-> <<Doc(<<"No permission differences found.">>, EmptyBag)>>]
    ELSE [ret |-> EmptyDoc,
          out |-> <<Doc(<<"Permission Difference Report", "File", dir1, dir2>>, d)>>]

-----------------------------------------------------------------------------
(* main, one action per step. No step of the model raises an exception    *)
(* other than the IOError of open(), so the handler of lines 341-343 has    *)
(* nothing to catch; sys.exit raises SystemExit, which it does not catch.   *)

LogLevels == {"DEBUG", "INFO", "WARNING", "ERROR", "CRITICAL"}

Args == [recursive : BOOLEAN, ignore_ownership : BOOLEAN,
         log_level : LogLevels,
         report_file : BOOLEAN, output_format : {"text", "rich"}]

\* lines 12-23: importing the module without rich prints a notice
ImportNotice(installed) ==
    IF installed THEN << >>
    ELSE <<Doc(<<"Rich library not found. Install with: pip install rich">>,
               EmptyBag)>>

Idle ==
    /\ diffs = EmptyBag
    /\ report = EmptyDoc
    /\ stdout = ImportNotice(rich_installed)
    /\ file_out = << >>
    /\ exit_code = -1
    /\ log = EmptyBag
    /\ compare_calls = 0

Init ==
    /\ fs1 \in TreesBase
    /\ fs2 \in TreesMode
    /\ args \in Args
    /\ rich_installed \in BOOLEAN
    /\ writable \in BOOLEAN
    /\ pc = "start"
    /\ Idle

Exit(code) == pc' = "exited" /\ exit_code' = code

\* the path given with --report-file
ReportPath == [root |-> "REPORT_FILE", rel |-> << >>]

\* the existence check without its test of DIR2
MainCheckRootsFirstOnly ==
    /\ pc = "start"
    /\ IF ~exists(World, Root1)
       THEN /\ log' = log (+) Emit(LogRec("ERROR", "Directory not found", Root1),
                                     args.log_level)
            /\ Exit(1)
       ELSE /\ pc' = "compare"
            /\ UNCHANGED <<log, exit_code>>
    /\ UNCHANGED <<fs1, fs2, args, rich_installed, writable,
                   diffs, report, stdout, file_out, compare_calls>>
\* lines 308-318: the log level is the one of --log-level; either root
\* missing is fatal
MainCheckRoots ==
    /\ pc = "start"
    /\ IF ~exists(World, Root1)
       THEN /\ log' = log (+) Emit(LogRec("ERROR", "Directory not found", Root1),
                                     args.log_level)
            /\ Exit(1)
       ELSE IF ~exists(World, Root2)
       THEN /\ log' = log (+) Emit(LogRec("ERROR", "Directory not found", Root2),
                                     args.log_level)
            /\ Exit(1)
       ELSE /\ pc' = "compare"
            /\ UNCHANGED <<log, exit_code>>
    /\ UNCHANGED <<fs1, fs2, args, rich_installed, writable,
                   diffs, report, stdout, file_out, compare_calls>>

\* lines 321-323
MainCompare ==
    /\ pc = "compare"
    /\ LET r == compare_directories(World, Root1, Root2,
                                    args.recursive, args.ignore_ownership)
       IN  /\ diffs' = r.ret
           /\ log' = log (+) Emit(r.log, args.log_level)
    /\ compare_calls' = compare_calls + 1
    /\ pc' = "render"
    /\ UNCHANGED <<fs1, fs2, args, rich_installed, writable,
                   report, stdout, file_out, exit_code>>

\* lines 325-328
MainRender ==
    /\ pc = "render"
    /\ IF args.output_format = "rich"
       THEN LET r == generate_rich_report(diffs, "DIR1", "DIR2", rich_installed)
            IN  /\ report' = r.ret
                /\ stdout' = stdout \o r.out
       ELSE /\ report' = generate_text_report(diffs, "DIR1", "DIR2")
            /\ UNCHANGED stdout
    /\ pc' = "output"
    /\ UNCHANGED <<fs1, fs2, args, rich_installed, writable,
                   diffs, file_out, exit_code, log, compare_calls>>

\* lines 330-339: the report goes to the report file or to standard output;
\* open() failing is an IOError and exit code 1
MainOutput ==
    /\ pc = "output"
    /\ IF args.report_file
       THEN IF writable
            THEN /\ file_out' = <<report>>
                 /\ log' = log (+) Emit(LogRec("INFO", "Report saved to", ReportPath),
                                     args.log_level)
                 /\ Exit(0)
                 /\ UNCHANGED stdout
            ELSE /\ log' = log (+) Emit(LogRec("ERROR", "Error writing to file", ReportPath),
                                     args.log_level)
                 /\ Exit(1)
                 /\ UNCHANGED <<stdout, file_out>>
       ELSE /\ stdout' = Append(stdout, report)
            /\ Exit(0)
            /\ UNCHANGED <<file_out, log>>
    /\ UNCHANGED <<fs1, fs2, args, rich_installed, writable,
                   diffs, report, compare_calls>>

Next == MainCheckRoots \/ MainCompare \/ MainRender \/ MainOutput

Spec == Init /\ [][Next]_vars

-----------------------------------------------------------------------------
(* compare_directories called on its own, over every pair of trees          *)

InitCompare ==
    /\ fs1 \in TreesMode
    /\ fs2 \in TreesAny
    /\ args \in {a \in Args : /\ ~a.report_file /\ a.output_format = "text"
                            /\ a.log_level = "INFO"}
    /\ rich_installed = FALSE
    /\ writable = FALSE
    /\ pc = "call"
    /\ Idle

CallCompare ==
    /\ pc = "call"
    /\ LET r == compare_directories(World, Root1, Root2,
                                    args.recursive, args.ignore_ownership)
       IN  /\ diffs' = r.ret
           /\ log' = Emit(r.log, args.log_level)
    /\ compare_calls' = compare_calls + 1
    /\ pc' = "returned"
    /\ UNCHANGED <<fs1, fs2, args, rich_installed, writable,
                   report, stdout, file_out, exit_code>>

NextCompare == CallCompare

SpecCompare == InitCompare /\ [][NextCompare]_vars

-----------------------------------------------------------------------------
(* Vocabulary of the properties                                             *)

Entries == BagToSet(diffs)

FlaggedPaths == {e[1] : e \in Entries}

Returned == pc = "returned"

BothRootsDirs == fs1[<< >>].kind = "dir" /\ fs2[<< >>].kind = "dir"

FileOnBoth(p) == fs1[p].kind = "file" /\ fs2[p].kind = "file"

OwnershipDiffers(p) == fs1[p].uid # fs2[p].uid \/ fs1[p].gid # fs2[p].gid

Nested(p) == Len(p) > 1

\* how many entries of the returned list carry the relative path p
RECURSIVE CountIn(_, _)
CountIn(S, p) ==
    IF S = {} THEN 0
    ELSE LET e == CHOOSE x \in S : TRUE
         IN  (IF e[1] = p THEN CopiesIn(e, diffs) ELSE 0) + CountIn(S \ {e}, p)

Occurrences(p) == CountIn(Entries, p)

-----------------------------------------------------------------------------
(* Properties of compare_directories, under SpecCompare                     *)

\* C1: with ignore_ownership set, a path whose two files have the same mode
\* but a different owner or group is not flagged.
C1_IgnoreOwnershipHidesOwnerAndGroup ==
    (Returned /\ args.ignore_ownership) =>
        \A p \in RelPaths :
            (FileOnBoth(p) /\ fs1[p].perm = fs2[p].perm /\ OwnershipDiffers(p))
                => p \notin FlaggedPaths

\* C2: without recursive no file inside a subdirectory is flagged; with
\* recursive a differing file inside a subdirectory is flagged.
C2_RecursiveFlagGovernsDepth ==
    Returned =>
        /\ ~args.recursive => \A p \in FlaggedPaths : ~Nested(p)
        /\ (args.recursive /\ BothRootsDirs) =>
              \A p \in RelPaths :
                  (Nested(p) /\ FileOnBoth(p) /\ fs1[p] # fs2[p])
                      => p \in FlaggedPaths

\* C3: a path that is a file under exactly one root (both roots being
\* directories) and absent under the other is flagged, with the empty dict on
\* the side that lacks it and a non-empty snapshot on the side that has it.
C3_OneSidedFileFlagged ==
    (Returned /\ BothRootsDirs) =>
        \A p \in RelPaths :
            /\ (fs1[p].kind = "file" /\ fs2[p].kind = "none") =>
                  /\ p \in FlaggedPaths
                  /\ \A e \in Entries :
                        e[1] = p => (e[2] # EmptyDict /\ e[3] = EmptyDict)
            /\ (fs1[p].kind = "none" /\ fs2[p].kind = "file") =>
                  /\ p \in FlaggedPaths
                  /\ \A e \in Entries :
                        e[1] = p => (e[2] = EmptyDict /\ e[3] # EmptyDict)

C3_Witness ==
    /\ Returned /\ BothRootsDirs
    /\ \E p \in RelPaths :
          /\ fs1[p].kind = "file" /\ fs2[p].kind = "none"
          /\ \E e \in Entries : e[1] = p /\ e[3] = EmptyDict
    /\ \E p \in RelPaths :
          /\ fs1[p].kind = "none" /\ fs2[p].kind = "file"
          /\ \E e \in Entries : e[1] = p /\ e[2] = EmptyDict

\* C6: the call with the roots swapped flags the same relative paths, each
\* with the same two snapshots in the other order.
C6_SwapSymmetry ==
    Returned =>
        LET swapped == compare_directories(World, Root2, Root1,
                           args.recursive, args.ignore_ownership).ret
        IN  /\ {e[1] : e \in BagToSet(swapped)} = FlaggedPaths
            /\ BagToSet(swapped) = {<<e[1], e[3], e[2]>> : e \in Entries}
            /\ \A e \in Entries :
                  CopiesIn(<<e[1], e[3], e[2]>>, swapped) = CopiesIn(e, diffs)

C6_Witness ==
    /\ Returned /\ BothRootsDirs
    /\ \E e \in Entries : e[2] # EmptyDict /\ e[3] = EmptyDict
    /\ \E e \in Entries : e[2] # EmptyDict /\ e[3] # EmptyDict

\* C7 as claimed: with recursive, a differing file inside a subdirectory
\* appears more than once in the returned list.
C7_NestedFileFlaggedTwice ==
    (Returned /\ args.recursive /\ BothRootsDirs) =>
        \A p \in RelPaths :
            (Nested(p) /\ FileOnBoth(p) /\ fs1[p] # fs2[p])
                => Occurrences(p) > 1

\* C7 as amended: with recursive, a differing file inside a subdirectory
\* appears exactly once in the returned list, which holds no entry twice and
\* no relative path twice, and flags only files of one of the two trees.
C7_NestedFileFlaggedOnce ==
    (Returned /\ args.recursive /\ BothRootsDirs) =>
        /\ \A p \in RelPaths :
              (Nested(p) /\ FileOnBoth(p) /\ fs1[p] # fs2[p])
                  => Occurrences(p) = 1
        /\ \A e \in Entries : CopiesIn(e, diffs) = 1
        /\ BagCardinality(diffs) = Cardinality(FlaggedPaths)
        /\ \A p \in FlaggedPaths :
              p \in RelPaths /\ (fs1[p].kind = "file" \/ fs2[p].kind = "file")

C7_Witness ==
    /\ Returned /\ args.recursive /\ BothRootsDirs
    /\ FileOnBoth(<<"d", "a">>)
    /\ fs1[<<"d", "a">>] # fs2[<<"d", "a">>]
    /\ Occurrences(<<"d", "a">>) = 1
    /\ FileOnBoth(<<"d", "d", "a">>)
    /\ fs1[<<"d", "d", "a">>] # fs2[<<"d", "d", "a">>]
    /\ Occurrences(<<"d", "d", "a">>) = 1

\* C8: a path that is a regular file under one root and a directory under the
\* other is flagged, with two non-empty snapshots that differ.
C8_FileAgainstDirectoryFlagged ==
    (Returned /\ BothRootsDirs) =>
        \A p \in RelPaths :
            (\/ fs1[p].kind = "file" /\ fs2[p].kind = "dir"
             \/ fs1[p].kind = "dir" /\ fs2[p].kind = "file")
                => /\ Occurrences(p) = 1
                   /\ \A e \in Entries :
                         e[1] = p => /\ e[2] # EmptyDict
                                     /\ e[3] # EmptyDict
                                     /\ e[2] # e[3]

\* the directory and the file share permission bits, owner and group
C8_Witness ==
    /\ Returned /\ BothRootsDirs
    /\ fs1[<<"d">>] = DirNode
    /\ fs2[<<"d">>] = PermChanged
    /\ <<"d">> \in FlaggedPaths

\* C9: the call with the recursive flag inverted returns the same list.
C9_RecursiveFlagHasNoEffect ==
    Returned =>
        diffs = compare_directories(World, Root1, Root2,
                    ~args.recursive, args.ignore_ownership).ret

C9_Witness ==
    /\ Returned /\ BothRootsDirs /\ args.recursive
    /\ fs1[<<"d">>].kind = "dir" /\ fs2[<<"d">>].kind = "dir"
    /\ fs1[<<"d", "d">>].kind = "dir" /\ fs2[<<"d", "d">>].kind = "dir"
    /\ <<"d", "d", "a">> \in FlaggedPaths
    /\ <<"d", "a">> \in FlaggedPaths
    /\ <<"a">> \in FlaggedPaths

-----------------------------------------------------------------------------
(* Properties of main, under Spec                                           *)

NoDiffsLine == "No permission differences found."

HasLine(doc, line) == \E i \in DOMAIN doc.lines : doc.lines[i] = line

\* a printed or written document that carries the report: its discrepancy
\* entries, or the line that says there are none
IsReport(doc) == doc.blocks # EmptyBag \/ HasLine(doc, NoDiffsLine)

ReportPrinted == \E i \in DOMAIN stdout : IsReport(stdout[i])

Logged(level, msg, path) ==
    CopiesIn([level |-> level, msg |-> msg, path |-> path], log) > 0

RootMissing == ~exists(World, Root1) \/ ~exists(World, Root2)

\* a root that exists and is no directory
RootIsFile == fs1[<< >>].kind = "file" \/ fs2[<< >>].kind = "file"

FirstBadRoot == IF fs1[<< >>].kind # "dir" THEN Root1 ELSE Root2

\* C4: with --report-file, in either format, the report with one entry per
\* discrepancy is in the report file and is not printed to standard output.
C4_ReportFileHoldsTheReport ==
    (pc = "exited" /\ exit_code = 0 /\ args.report_file) =>
        /\ file_out # << >>
        /\ \A i \in DOMAIN file_out :
              IsReport(file_out[i]) /\ file_out[i].blocks = diffs
        /\ ~ReportPrinted

\* C5: a missing DIR1 or DIR2 ends main with exit code 1 before
\* compare_directories is called; nothing is computed, rendered, printed or
\* written.
C5_MissingRootExitsBeforeComparison ==
    RootMissing =>
        /\ pc \in {"start", "exited"}
        /\ pc = "exited" => exit_code = 1
        /\ compare_calls = 0
        /\ diffs = EmptyBag
        /\ report = EmptyDoc
        /\ ~ReportPrinted
        /\ file_out = << >>

C5_Witness ==
    /\ pc = "exited" /\ exit_code = 1
    /\ fs1[<< >>].kind = "dir" /\ fs1[<<"a">>].kind = "file"
    /\ ~exists(World, Root2)
    /\ Logged("ERROR", "Directory not found", Root2)

\* C10 as claimed: a root that exists but is no directory, whatever the other
\* root is, ends main with exit code 0 after an empty comparison.
C10_FileRootExitsZero ==
    (RootIsFile /\ pc = "exited") =>
        /\ exit_code = 0
        /\ compare_calls = 1
        /\ diffs = EmptyBag

\* C10 as amended: when both roots exist and one of them is no directory,
\* compare_directories logs 'Directory not found' for it (an ERROR record,
\* which reaches the log unless --log-level is CRITICAL) and returns the
\* empty list, 'No permission differences found.' is rendered, and main ends
\* with exit code 0, or with 1 exactly when writing the report file fails.
C10_FileRootRendersNoDifferences ==
    (RootIsFile /\ ~RootMissing) =>
        /\ pc \in {"render", "output", "exited"} =>
              /\ compare_calls = 1
              /\ diffs = EmptyBag
              /\ Logged("ERROR", "Directory not found", FirstBadRoot)
                    <=> args.log_level # "CRITICAL"
        /\ pc \in {"output", "exited"} =>
              \/ HasLine(report, NoDiffsLine)
              \/ \E i \in DOMAIN stdout : HasLine(stdout[i], NoDiffsLine)
        /\ pc = "exited" =>
              /\ exit_code = IF args.report_file /\ ~writable THEN 1 ELSE 0
              /\ exit_code = 0 =>
                    \/ \E i \in DOMAIN stdout : HasLine(stdout[i], NoDiffsLine)
                    \/ \E i \in DOMAIN file_out : HasLine(file_out[i], NoDiffsLine)

C10_Witness ==
    /\ pc = "exited" /\ exit_code = 0
    /\ fs1[<< >>].kind = "file" /\ fs2[<< >>].kind = "dir"
    /\ fs2[<<"a">>].kind = "file"
    /\ Logged("ERROR", "Directory not found", Root1)
    /\ ReportPrinted

=============================================================================
